---- MODULE Spec2Model ----
(***************************************************************************)
(* Leader-side failover coordination of a consumer group                   *)
(* (yellowstone_log/consumer_group/leader.rs).                             *)
(*                                                                         *)
(* The model holds the etcd store as far as leader.rs touches it (the      *)
(* store revision, the leader lock keys, the state-log key, the producer   *)
(* liveness keys, the instance-lock keys, barriers, leases), and one       *)
(* process per ConsumerGroupLeaderNode: its constructor `new`, its         *)
(* `leader_loop`, and the tasks spawned by get_producer_dead_signal.       *)
(*                                                                         *)
(* Every store call of an arm is a step of its own, so that other clients *)
(* and nodes run between two calls. Store calls are assumed to return Ok:  *)
(* the `?` error paths of a store call that fails are not modelled.        *)
(***************************************************************************)
EXTENDS Integers, Sequences, FiniteSets, TLC

\* ------------------------------------------------------------------ bounds

\* The environment (other store clients, lease expiry) stops mutating the
\* store once the store revision reaches this value.
MaxEnvRevision == 3

\* A watch stream buffers at most this many undelivered messages.
MaxWatchMessages == 2

\* ------------------------------------------------------------ fixed sets

\* ConsumerGroupLeaderNode instances driving the same consumer group.
Runtimes == {"A", "B"}

\* ProducerId values.
Producers == {"P1"}

\* Keys under the group's instance-lock prefix.
Instances == {"I1", "I2"}

\* Barrier keys (Uuid::new_v4) are numbered in the order they are minted;
\* key 1 was minted before the model starts. A node mints one key in the
\* signal branch of the Idle arm and one in the LostProducer arm, and passes
\* each at most once: after WaitingBarrier comes ComputingProducerSelection,
\* whose arm panics.
BarrierKeys == 1 .. (2 * Cardinality(Runtimes) + 1)

VARIABLES
    revision,          \* the store's revision counter
    leader_key,        \* [Runtimes -> version of that node's leader lock key]
    log,               \* the state-log key: [version, mod_revision, value]
    producer_lock,     \* the producers whose liveness key exists
    lock_subkeys,      \* the producers with another key under the prefix
                       \* that their liveness key's path is
    instance_locks,    \* the keys under the instance-lock prefix
    barriers,          \* [BarrierKeys -> NoBarrier or a barrier]
    markers,           \* the empty markers put by the Idle arm
    uuids,             \* how many Uuid::new_v4 keys were minted
    leases,            \* how many leases were granted
    pc,                \* [Runtimes -> position of the node's control flow]
    rt,                \* [Runtimes -> the ConsumerGroupLeaderNode fields]
    ds,                \* [Runtimes -> the dead signal made by the Idle arm;
                       \*  its field died is history: the liveness key was
                       \*  absent at, or deleted after, the etcd.watch call;
                       \*  its field dropped: the signal's holder is gone]
    interrupt_signal,  \* [Runtimes -> state of the interrupt oneshot]
    txn_log            \* history: the transactions of new and leader_loop

vars == <<revision, leader_key, log, producer_lock, lock_subkeys, instance_locks, barriers,
          markers, uuids, leases, pc, rt, ds, interrupt_signal, txn_log>>

\* ------------------------------------------------- ConsumerGroupLeaderSM

NoState == [type |-> "None"]

SMInit == [type |-> "Init"]

LostProducer(p, e) ==
    [type |-> "LostProducer", lost_producer_id |-> p, execution_id |-> e]

WaitingBarrier(l, k, w) ==
    [type |-> "WaitingBarrier", lease_id |-> l, barrier_key |-> k, wait_for |-> w]

ComputingProducerSelection == [type |-> "ComputingProducerSelection"]

Idle(p, e) == [type |-> "Idle", producer_id |-> p, execution_id |-> e]

\* ------------------------------------------------------------- the store

\* A key that does not exist compares as version 0, mod_revision 0.
AbsentKey == [version |-> 0, mod_revision |-> 0, value |-> NoState]

\* The revision a put executed at store revision rev reports in its
\* response header: the revision the put creates.
PutRevision(rev) == rev + 1

\* The key after a put of value v executed at store revision rev.
StorePut(key, rev, v) ==
    [version |-> key.version + 1, mod_revision |-> PutRevision(rev), value |-> v]

\* No put response: the transaction's compares failed.
NoResponse == 0

NoBarrier == [exists |-> FALSE]

\* etcd_utils::barrier: a rendezvous over the frozen participant set.
NewBarrier(w, l) ==
    [exists |-> TRUE, wait_for |-> w, lease_id |-> l, arrived |-> {}]

\* Barrier::wait resolves when every participant has signalled arrival.
BarrierResolved(k) ==
    /\ barriers[k] # NoBarrier
    /\ barriers[k].arrived = barriers[k].wait_for

\* ------------------------------------------------------------ dead signal

\* No subscription made yet.
NoSignal ==
    [watch |-> "none", stream |-> <<>>, inner |-> "none", watcher |-> "none",
     cancel_task |-> "none", died |-> FALSE, dropped |-> FALSE]

\* ProducerDeadSignal::poll: Ready(Ok) once tx.send(()) happened,
\* Ready(Err(RecvError)) once tx was dropped without a send.
SignalReady(sig) == sig.inner \in {"sent", "closed"}

\* ------------------------------------------------------------------ Init

NoNode ==
    [state_machine |-> NoState, last_revision |-> 0,
     producer_dead_signal |-> "None", barrier |-> 0, next_state |-> NoState,
     wait_on |-> 0, barrier_key |-> 0, lease_id |-> 0, wait_for |-> {}]

\* What the state-log key can hold when a node is constructed: nothing, or
\* any serialized ConsumerGroupLeaderSM left by an earlier leader.
InitialLogValues ==
    {NoState, SMInit, LostProducer("P1", "E1"), WaitingBarrier(1, 1, Instances),
     ComputingProducerSelection, Idle("P1", "E1")}

Init ==
    /\ revision = 1
    /\ leader_key = [r \in Runtimes |-> 1]
    /\ \E v \in InitialLogValues :
          /\ log = IF v = NoState THEN AbsentKey
                   ELSE [version |-> 1, mod_revision |-> 1, value |-> v]
          /\ barriers = [k \in BarrierKeys |->
                           IF k = 1 /\ v.type = "WaitingBarrier"
                           THEN NewBarrier(Instances, 1) ELSE NoBarrier]
    /\ producer_lock \in SUBSET Producers
    /\ lock_subkeys = {}
    /\ instance_locks = Instances
    /\ markers = {}
    /\ uuids = 1
    /\ leases = 1
    /\ pc = [r \in Runtimes |-> "new_get"]
    /\ rt = [r \in Runtimes |-> NoNode]
    /\ ds = [r \in Runtimes |-> NoSignal]
    /\ interrupt_signal = [r \in Runtimes |-> "empty"]
    /\ txn_log = {}

\* --------------------------------------------- ConsumerGroupLeaderNode::new

\* A bootstrap that forgets the compare on the state-log key.
NewTxnWhenLeaderOnly(leader_version, log_version) ==
    leader_version > 0

\* A bootstrap that forgets the compare on the leader lock key.
NewTxnWhenLogOnly(leader_version, log_version) ==
    log_version = 0

\* The compares of the bootstrap transaction.
NewTxnWhen(leader_version, log_version) ==
    /\ leader_version > 0
    /\ log_version = 0

\* etcd.get(leader_log_key): a present key gives (mod_revision, state).
NewGet(r) ==
    /\ pc[r] = "new_get"
    /\ IF log.version > 0
       THEN /\ rt' = [rt EXCEPT ![r].state_machine = log.value,
                                ![r].last_revision = log.mod_revision]
            /\ pc' = [pc EXCEPT ![r] = "loop"]
       ELSE /\ pc' = [pc EXCEPT ![r] = "new_txn"]
            /\ UNCHANGED rt
    /\ UNCHANGED <<revision, leader_key, log, producer_lock, lock_subkeys, instance_locks,
                   barriers, markers, uuids, leases, ds, interrupt_signal,
                   txn_log>>

\* A bootstrap that adopts the revision the transaction started from.
NewTxnResponseStale(leader_version, log_version, rev) ==
    IF leader_version > 0 /\ log_version = 0 THEN rev ELSE NoResponse

\* The revision of the bootstrap put's response, NoResponse when the
\* compares failed.
NewTxnResponse(leader_version, log_version, rev) ==
    IF NewTxnWhen(leader_version, log_version)
    THEN PutRevision(rev) ELSE NoResponse

\* The bootstrap transaction and the construction that follows it.
NewTxn(r) ==
    /\ pc[r] = "new_txn"
    /\ LET resp == NewTxnResponse(leader_key[r], log.version, revision)
       IN  /\ IF resp # NoResponse
              THEN /\ log' = StorePut(log, revision, SMInit)
                   /\ revision' = PutRevision(revision)
                   /\ rt' = [rt EXCEPT ![r].state_machine = SMInit,
                                       ![r].last_revision = resp]
                   /\ pc' = [pc EXCEPT ![r] = "loop"]
              ELSE /\ pc' = [pc EXCEPT ![r] = "new_err"]
                   /\ UNCHANGED <<log, revision, rt>>
           /\ txn_log' = txn_log \cup
                 {[kind |-> "new", node |-> r, from |-> 0,
                   state |-> NoState, next |-> SMInit,
                   leader_version |-> leader_key[r],
                   mod_revision |-> log.mod_revision,
                   put |-> resp # NoResponse]}
    /\ UNCHANGED <<leader_key, producer_lock, lock_subkeys, instance_locks, barriers,
                   markers, uuids, leases, ds, interrupt_signal>>

\* ------------------------------------- ConsumerGroupLeaderNode::leader_loop

Running(r) ==
    pc[r] \in {"loop", "lp_get", "lp_barrier", "wait_barrier", "ds_get",
               "wait_idle", "idle_put", "persist"}

\* Init arm.
LoopInit(r) ==
    /\ pc[r] = "loop"
    /\ rt[r].state_machine.type = "Init"
    /\ rt' = [rt EXCEPT ![r].next_state = ComputingProducerSelection]
    /\ pc' = [pc EXCEPT ![r] = "persist"]
    /\ UNCHANGED <<revision, leader_key, log, producer_lock, lock_subkeys, instance_locks,
                   barriers, markers, uuids, leases, ds, interrupt_signal,
                   txn_log>>

\* LostProducer arm up to the return of lease_grant: Uuid::new_v4 mints the
\* barrier key, the store grants a lease.
LoopLostProducer(r) ==
    /\ pc[r] = "loop"
    /\ rt[r].state_machine.type = "LostProducer"
    /\ uuids' = uuids + 1
    /\ leases' = leases + 1
    /\ rt' = [rt EXCEPT ![r].barrier_key = uuids + 1,
                        ![r].lease_id = leases + 1]
    /\ pc' = [pc EXCEPT ![r] = "lp_get"]
    /\ UNCHANGED <<revision, leader_key, log, producer_lock, lock_subkeys, instance_locks,
                   barriers, markers, ds, interrupt_signal, txn_log>>

\* LostProducer arm: etcd.get with the instance-lock prefix; wait_for is the
\* keys it returns.
LostProducerGet(r) ==
    /\ pc[r] = "lp_get"
    /\ rt' = [rt EXCEPT ![r].wait_for = instance_locks]
    /\ pc' = [pc EXCEPT ![r] = "lp_barrier"]
    /\ UNCHANGED <<revision, leader_key, log, producer_lock, lock_subkeys, instance_locks,
                   barriers, markers, uuids, leases, ds, interrupt_signal,
                   txn_log>>

\* A new_barrier call over every known instance instead of the instance
\* locks that were listed.
LostProducerBarrierOverAll(r) ==
    /\ pc[r] = "lp_barrier"
    /\ barriers' = [barriers EXCEPT ![rt[r].barrier_key] =
                                        NewBarrier(Instances, rt[r].lease_id)]
    /\ revision' = PutRevision(revision)
    /\ rt' = [rt EXCEPT ![r].barrier = rt[r].barrier_key,
                        ![r].next_state =
                            WaitingBarrier(rt[r].lease_id, rt[r].barrier_key,
                                           rt[r].wait_for),
                        ![r].barrier_key = 0,
                        ![r].lease_id = 0,
                        ![r].wait_for = {}]
    /\ pc' = [pc EXCEPT ![r] = "persist"]
    /\ UNCHANGED <<leader_key, log, producer_lock, lock_subkeys, instance_locks, markers,
                   uuids, leases, ds, interrupt_signal, txn_log>>

\* LostProducer arm: new_barrier over wait_for bound to the lease, the
\* handle cached in self.barrier, and the WaitingBarrier value built; the
\* arm's locals then go out of scope.
LostProducerBarrier(r) ==
    /\ pc[r] = "lp_barrier"
    /\ barriers' = [barriers EXCEPT ![rt[r].barrier_key] =
                                        NewBarrier(rt[r].wait_for, rt[r].lease_id)]
    /\ revision' = PutRevision(revision)
    /\ rt' = [rt EXCEPT ![r].barrier = rt[r].barrier_key,
                        ![r].next_state =
                            WaitingBarrier(rt[r].lease_id, rt[r].barrier_key,
                                           rt[r].wait_for),
                        ![r].barrier_key = 0,
                        ![r].lease_id = 0,
                        ![r].wait_for = {}]
    /\ pc' = [pc EXCEPT ![r] = "persist"]
    /\ UNCHANGED <<leader_key, log, producer_lock, lock_subkeys, instance_locks, markers,
                   uuids, leases, ds, interrupt_signal, txn_log>>

\* WaitingBarrier arm up to the select: the cached handle if there is one,
\* else get_barrier on the persisted barrier_key.
LoopWaitingBarrier(r) ==
    /\ pc[r] = "loop"
    /\ rt[r].state_machine.type = "WaitingBarrier"
    /\ rt' = [rt EXCEPT ![r].wait_on =
                            IF rt[r].barrier # 0 THEN rt[r].barrier
                            ELSE rt[r].state_machine.barrier_key,
                        ![r].barrier = 0]
    /\ pc' = [pc EXCEPT ![r] = "wait_barrier"]
    /\ UNCHANGED <<revision, leader_key, log, producer_lock, lock_subkeys, instance_locks,
                   barriers, markers, uuids, leases, ds, interrupt_signal,
                   txn_log>>

\* A select! whose interrupt branch falls through to the persist.
WaitingBarrierInterruptedFallsThrough(r) ==
    /\ pc[r] = "wait_barrier"
    /\ interrupt_signal[r] = "sent"
    /\ rt' = [rt EXCEPT ![r].wait_on = 0,
                        ![r].next_state = ComputingProducerSelection]
    /\ pc' = [pc EXCEPT ![r] = "persist"]
    /\ UNCHANGED <<revision, leader_key, log, producer_lock, lock_subkeys, instance_locks,
                   barriers, markers, uuids, leases, ds, interrupt_signal,
                   txn_log>>

\* select!: the interrupt branch.
WaitingBarrierInterrupted(r) ==
    /\ pc[r] = "wait_barrier"
    /\ interrupt_signal[r] = "sent"
    /\ rt' = [rt EXCEPT ![r].wait_on = 0]
    /\ pc' = [pc EXCEPT ![r] = "ret_interrupted"]
    /\ UNCHANGED <<revision, leader_key, log, producer_lock, lock_subkeys, instance_locks,
                   barriers, markers, uuids, leases, ds, interrupt_signal,
                   txn_log>>

\* select!: the barrier.wait() branch.
WaitingBarrierResolved(r) ==
    /\ pc[r] = "wait_barrier"
    /\ BarrierResolved(rt[r].wait_on)
    /\ rt' = [rt EXCEPT ![r].wait_on = 0,
                        ![r].next_state = ComputingProducerSelection]
    /\ pc' = [pc EXCEPT ![r] = "persist"]
    /\ UNCHANGED <<revision, leader_key, log, producer_lock, lock_subkeys, instance_locks,
                   barriers, markers, uuids, leases, ds, interrupt_signal,
                   txn_log>>

\* ComputingProducerSelection arm: todo!() panics.
LoopComputingProducerSelection(r) ==
    /\ pc[r] = "loop"
    /\ rt[r].state_machine.type = "ComputingProducerSelection"
    /\ pc' = [pc EXCEPT ![r] = "panicked"]
    /\ UNCHANGED <<revision, leader_key, log, producer_lock, lock_subkeys, instance_locks,
                   barriers, markers, uuids, leases, rt, ds, interrupt_signal,
                   txn_log>>

\* ---------------------------------------------- get_producer_dead_signal

\* etcd.watch on the producer's liveness key: the Idle arm's call of
\* get_producer_dead_signal up to its first store call.
IdleWatch(r) ==
    /\ pc[r] = "loop"
    /\ rt[r].state_machine.type = "Idle"
    /\ ds' = [ds EXCEPT ![r] =
                 [NoSignal EXCEPT
                     !.watch = "open",
                     !.died = rt[r].state_machine.producer_id \notin producer_lock]]
    /\ pc' = [pc EXCEPT ![r] = "ds_get"]
    /\ UNCHANGED <<revision, leader_key, log, producer_lock, lock_subkeys, instance_locks,
                   barriers, markers, uuids, leases, rt, interrupt_signal,
                   txn_log>>

\* A subscription without the early exit for a producer that is already dead.
SubscribeSignalNoEarlyExit(sig, count) ==
    [sig EXCEPT !.inner = "pending", !.watcher = "running",
                !.cancel_task = "waiting"]

\* A subscription whose early exit returns before the cancel task is spawned.
SubscribeSignalEarlyExitBeforeSpawn(sig, count) ==
    IF count = 0
    THEN [sig EXCEPT !.inner = "sent", !.stream = <<>>]
    ELSE [sig EXCEPT !.inner = "pending", !.watcher = "running",
                     !.cancel_task = "waiting"]

\* The signal get_producer_dead_signal returns, given whether etcd.get found
\* the liveness key: resolved at once when it is absent (the stream is
\* dropped), else pending with the watcher task spawned on the stream.
SubscribeSignal(sig, count) ==
    IF count = 0
    THEN [sig EXCEPT !.inner = "sent", !.stream = <<>>, !.cancel_task = "waiting"]
    ELSE [sig EXCEPT !.inner = "pending", !.watcher = "running",
                     !.cancel_task = "waiting"]

\* etcd.get on the liveness key and the rest of get_producer_dead_signal,
\* then get_or_insert into self.producer_dead_signal, which is None whenever
\* the arm is entered (ArmsFindNoCache), so the new signal is the one kept.
IdleGet(r) ==
    /\ pc[r] = "ds_get"
    /\ LET count == IF rt[r].state_machine.producer_id \in producer_lock
                    THEN 1 ELSE 0
       IN  ds' = [ds EXCEPT ![r] = SubscribeSignal(ds[r], count)]
    /\ rt' = [rt EXCEPT ![r].producer_dead_signal = "Some"]
    /\ pc' = [pc EXCEPT ![r] = "wait_idle"]
    /\ UNCHANGED <<revision, leader_key, log, producer_lock, lock_subkeys, instance_locks,
                   barriers, markers, uuids, leases, interrupt_signal,
                   txn_log>>

\* The state of the watcher task after it handled one watch message, named
\* by the type of the message's first event ("None": no event; "End": the
\* stream ended).
WatcherAfter(message) ==
    CASE message = "Put"    -> "panic_put"
      [] message = "Delete" -> "got_delete"
      [] message = "None"   -> "panic_none"
      [] OTHER              -> "stream_end"

\* A watcher task that does not send on a Delete event.
InnerAfterIgnoresDelete(inner, message) ==
    IF inner # "pending" \/ message = "Delete" THEN inner ELSE "closed"

\* The oneshot after the watcher task handled the message: a Delete sends,
\* everything else ends the task and drops tx unsent.
InnerAfter(inner, message) ==
    IF inner # "pending" THEN inner
    ELSE IF message = "Delete" THEN "sent" ELSE "closed"

\* The spawned watcher task takes the next message of the stream.
WatcherMessage(r) ==
    /\ ds[r].watcher = "running"
    /\ ds[r].stream # <<>>
    /\ LET message == Head(ds[r].stream)
       IN  ds' = [ds EXCEPT ![r].watcher = WatcherAfter(message),
                            ![r].inner = InnerAfter(ds[r].inner, message),
                            ![r].stream = <<>>]
    /\ UNCHANGED <<revision, leader_key, log, producer_lock, lock_subkeys, instance_locks,
                   barriers, markers, uuids, leases, pc, rt, interrupt_signal,
                   txn_log>>

\* select! in the Idle arm: the interrupt branch.
IdleInterrupted(r) ==
    /\ pc[r] = "wait_idle"
    /\ interrupt_signal[r] = "sent"
    /\ pc' = [pc EXCEPT ![r] = "ret_interrupted"]
    /\ UNCHANGED <<revision, leader_key, log, producer_lock, lock_subkeys, instance_locks,
                   barriers, markers, uuids, leases, rt, ds, interrupt_signal,
                   txn_log>>

\* select! in the Idle arm: the signal branch, whatever the signal's output
\* (Ok or Err), up to the return of lease_grant: Uuid::new_v4 mints a key,
\* the store grants a lease.
IdleDeadSignal(r) ==
    /\ pc[r] = "wait_idle"
    /\ SignalReady(ds[r])
    /\ uuids' = uuids + 1
    /\ leases' = leases + 1
    /\ ds' = [ds EXCEPT ![r].inner = "complete"]
    /\ rt' = [rt EXCEPT ![r].barrier_key = uuids + 1,
                        ![r].lease_id = leases + 1]
    /\ pc' = [pc EXCEPT ![r] = "idle_put"]
    /\ UNCHANGED <<revision, leader_key, log, producer_lock, lock_subkeys, instance_locks,
                   barriers, markers, interrupt_signal, txn_log>>

\* A signal branch that builds LostProducer with a new execution_id.
IdlePutFreshExecution(r) ==
    /\ pc[r] = "idle_put"
    /\ markers' = markers \cup {[key |-> rt[r].barrier_key,
                                  lease_id |-> rt[r].lease_id]}
    /\ revision' = PutRevision(revision)
    /\ rt' = [rt EXCEPT ![r].next_state =
                            LostProducer(rt[r].state_machine.producer_id, "E2"),
                        ![r].barrier_key = 0,
                        ![r].lease_id = 0]
    /\ pc' = [pc EXCEPT ![r] = "persist"]
    /\ UNCHANGED <<leader_key, log, producer_lock, lock_subkeys, instance_locks, barriers,
                   uuids, leases, ds, interrupt_signal, txn_log>>

\* The signal branch: etcd.put of the empty marker under the minted key with
\* the lease, then the LostProducer value built from the Idle state's
\* fields; the branch's locals then go out of scope.
IdlePut(r) ==
    /\ pc[r] = "idle_put"
    /\ markers' = markers \cup {[key |-> rt[r].barrier_key,
                                  lease_id |-> rt[r].lease_id]}
    /\ revision' = PutRevision(revision)
    /\ rt' = [rt EXCEPT ![r].next_state =
                            LostProducer(rt[r].state_machine.producer_id,
                                         rt[r].state_machine.execution_id),
                        ![r].barrier_key = 0,
                        ![r].lease_id = 0]
    /\ pc' = [pc EXCEPT ![r] = "persist"]
    /\ UNCHANGED <<leader_key, log, producer_lock, lock_subkeys, instance_locks, barriers,
                   uuids, leases, ds, interrupt_signal, txn_log>>

\* ------------------------------------------------- the persist transaction

\* A persist that forgets the compare on the state-log key.
LoopTxnWhenLeaderOnly(leader_version, log_mod_revision, last_revision) ==
    leader_version > 0

\* The compares of the persist transaction.
LoopTxnWhen(leader_version, log_mod_revision, last_revision) ==
    /\ leader_version > 0
    /\ log_mod_revision < last_revision

\* The revision of the put response, NoResponse when the compares failed.
TxnResponse(leader_version, log_mod_revision, last_revision, rev) ==
    IF LoopTxnWhen(leader_version, log_mod_revision, last_revision)
    THEN PutRevision(rev) ELSE NoResponse

\* A loop that assigns next_state before it looks at the response.
AfterTxnAdoptsFirst(node, resp, next) ==
    IF resp = NoResponse
    THEN [node EXCEPT !.state_machine = next, !.next_state = NoState]
    ELSE [node EXCEPT !.last_revision = resp, !.state_machine = next,
                      !.next_state = NoState]

\* A loop that adopts next_state but forgets self.last_revision = revision.
AfterTxnKeepsRevision(node, resp, next) ==
    IF resp = NoResponse
    THEN [node EXCEPT !.next_state = NoState]
    ELSE [node EXCEPT !.state_machine = next, !.next_state = NoState]

\* The node after the transaction: a put response is adopted together with
\* next_state; without one the `?` returns before any assignment.
AfterTxn(node, resp, next) ==
    IF resp = NoResponse
    THEN [node EXCEPT !.next_state = NoState]
    ELSE [node EXCEPT !.last_revision = resp, !.state_machine = next,
                      !.next_state = NoState]

\* Where the loop goes after the transaction: Err without a put response,
\* else the try_recv drain of the interrupt.
AfterTxnPc(resp, interrupt) ==
    IF resp = NoResponse THEN "ret_err"
    ELSE IF interrupt = "empty" THEN "loop" ELSE "ret_drained"

Persist(r) ==
    /\ pc[r] = "persist"
    /\ LET resp == TxnResponse(leader_key[r], log.mod_revision,
                               rt[r].last_revision, revision)
           next == rt[r].next_state
       IN  /\ IF resp # NoResponse
              THEN /\ log' = StorePut(log, revision, next)
                   /\ revision' = PutRevision(revision)
              ELSE UNCHANGED <<log, revision>>
           /\ rt' = [rt EXCEPT ![r] = AfterTxn(rt[r], resp, next)]
           /\ pc' = [pc EXCEPT ![r] = AfterTxnPc(resp, interrupt_signal[r])]
           /\ txn_log' = txn_log \cup
                 {[kind |-> "loop", node |-> r, from |-> rt[r].last_revision,
                   state |-> rt[r].state_machine, next |-> next,
                   leader_version |-> leader_key[r],
                   mod_revision |-> log.mod_revision,
                   put |-> resp # NoResponse]}
    /\ UNCHANGED <<leader_key, producer_lock, lock_subkeys, instance_locks, barriers,
                   markers, uuids, leases, ds, interrupt_signal>>

\* ------------------------------------------------------- the environment

\* The consumer of r's watch stream is alive: get_producer_dead_signal is
\* between watch and get, or the watcher task is running.
StreamRead(r) ==
    /\ ds[r].watch = "open"
    /\ pc[r] = "ds_get" \/ ds[r].watcher = "running"

\* r's watch, opened with_prefix on p's lock path, is live: it reports the
\* events of every key under that prefix.
WatchesProducer(r, p) ==
    /\ StreamRead(r)
    /\ rt[r].state_machine.type = "Idle"
    /\ rt[r].state_machine.producer_id = p

\* r has subscribed to p's liveness key (its etcd.watch call was made).
Subscribed(r, p) ==
    /\ ds[r].watch # "none"
    /\ rt[r].state_machine.type = "Idle"
    /\ rt[r].state_machine.producer_id = p

\* The watch streams after an event of type ev on a key under the prefix
\* of p's lock path.
Notify(p, ev) ==
    [r \in Runtimes |->
        IF WatchesProducer(r, p)
        THEN [ds[r] EXCEPT !.stream = Append(ds[r].stream, ev)]
        ELSE ds[r]]

\* The signals after the deletion of p's liveness key itself.
NotifyDeath(p) ==
    [r \in Runtimes |->
        IF Subscribed(r, p)
        THEN [Notify(p, "Delete")[r] EXCEPT !.died = TRUE]
        ELSE Notify(p, "Delete")[r]]

StreamsHaveRoom ==
    \A r \in Runtimes : Len(ds[r].stream) < MaxWatchMessages

EnvMayWrite == revision < MaxEnvRevision

\* The producer's liveness key is deleted (its lease expired, or it left).
ProducerDelete(p) ==
    /\ EnvMayWrite /\ StreamsHaveRoom
    /\ p \in producer_lock
    /\ producer_lock' = producer_lock \ {p}
    /\ revision' = PutRevision(revision)
    /\ ds' = NotifyDeath(p)
    /\ UNCHANGED <<leader_key, log, lock_subkeys, instance_locks, barriers,
                   markers, uuids, leases, pc, rt, interrupt_signal, txn_log>>

\* The producer's liveness key is put (created, or written again).
ProducerPut(p) ==
    /\ EnvMayWrite /\ StreamsHaveRoom
    /\ producer_lock' = producer_lock \cup {p}
    /\ revision' = PutRevision(revision)
    /\ ds' = Notify(p, "Put")
    /\ UNCHANGED <<leader_key, log, lock_subkeys, instance_locks, barriers,
                   markers, uuids, leases, pc, rt, interrupt_signal, txn_log>>

\* Another key under the prefix of p's lock path is put: the exact-key get
\* of get_producer_dead_signal does not count it, the prefix watch reports it.
SubkeyPut(p) ==
    /\ EnvMayWrite /\ StreamsHaveRoom
    /\ lock_subkeys' = lock_subkeys \cup {p}
    /\ revision' = PutRevision(revision)
    /\ ds' = Notify(p, "Put")
    /\ UNCHANGED <<leader_key, log, producer_lock, instance_locks, barriers,
                   markers, uuids, leases, pc, rt, interrupt_signal, txn_log>>

\* Another key under the prefix of p's lock path is deleted.
SubkeyDelete(p) ==
    /\ EnvMayWrite /\ StreamsHaveRoom
    /\ p \in lock_subkeys
    /\ lock_subkeys' = lock_subkeys \ {p}
    /\ revision' = PutRevision(revision)
    /\ ds' = Notify(p, "Delete")
    /\ UNCHANGED <<leader_key, log, producer_lock, instance_locks, barriers,
                   markers, uuids, leases, pc, rt, interrupt_signal, txn_log>>

\* The store sends a watch message without events, or ends the stream.
WatchFailure(r, message) ==
    /\ ds[r].watcher = "running"
    /\ ds[r].stream = <<>>
    /\ ds' = [ds EXCEPT ![r].stream = <<message>>]
    /\ UNCHANGED <<revision, leader_key, log, producer_lock, lock_subkeys, instance_locks,
                   barriers, markers, uuids, leases, pc, rt, interrupt_signal,
                   txn_log>>

\* The lease of r's leader lock key expires: the key is deleted.
LeaderKeyExpire(r) ==
    /\ EnvMayWrite
    /\ leader_key[r] > 0
    /\ leader_key' = [leader_key EXCEPT ![r] = 0]
    /\ revision' = PutRevision(revision)
    /\ UNCHANGED <<log, producer_lock, lock_subkeys, instance_locks, barriers, markers,
                   uuids, leases, pc, rt, ds, interrupt_signal, txn_log>>

\* An instance releases or takes its instance lock.
InstanceLeave(i) ==
    /\ EnvMayWrite
    /\ i \in instance_locks
    /\ instance_locks' = instance_locks \ {i}
    /\ revision' = PutRevision(revision)
    /\ UNCHANGED <<leader_key, log, producer_lock, lock_subkeys, barriers,
                   markers, uuids, leases, pc, rt, ds, interrupt_signal,
                   txn_log>>

InstanceJoin(i) ==
    /\ EnvMayWrite
    /\ i \notin instance_locks
    /\ instance_locks' = instance_locks \cup {i}
    /\ revision' = PutRevision(revision)
    /\ UNCHANGED <<leader_key, log, producer_lock, lock_subkeys, barriers,
                   markers, uuids, leases, pc, rt, ds, interrupt_signal,
                   txn_log>>

\* A participant of barrier k signals its arrival.
BarrierArrive(k, i) ==
    /\ EnvMayWrite
    /\ barriers[k] # NoBarrier
    /\ i \in barriers[k].wait_for \ barriers[k].arrived
    /\ barriers' = [barriers EXCEPT ![k].arrived = @ \cup {i}]
    /\ revision' = PutRevision(revision)
    /\ UNCHANGED <<leader_key, log, producer_lock, lock_subkeys, instance_locks, markers,
                   uuids, leases, pc, rt, ds, interrupt_signal, txn_log>>

\* The caller sends the interrupt (or drops its sender).
SendInterrupt(r) ==
    /\ Running(r)
    /\ interrupt_signal[r] = "empty"
    /\ interrupt_signal' = [interrupt_signal EXCEPT ![r] = "sent"]
    /\ UNCHANGED <<revision, leader_key, log, producer_lock, lock_subkeys, instance_locks,
                   barriers, markers, uuids, leases, pc, rt, ds, txn_log>>

\* leader_loop has ended: it returned, or it panicked.
Ended(r) ==
    pc[r] \in {"ret_interrupted", "ret_drained", "ret_err", "panicked"}

\* The signal after its drop: a spawned cancel task is woken by the drop of
\* _cancel_watcher_tx.
DroppedSignal(sig) ==
    [sig EXCEPT !.dropped = TRUE,
                !.cancel_task = IF @ = "waiting" THEN "woken" ELSE @]

\* The caller drops the node whose loop has ended, and with it the dead
\* signal the node holds: _cancel_watcher_tx is dropped, which wakes the
\* task that awaits cancel_watch_rx.
DropNode(r) ==
    /\ Ended(r)
    /\ rt[r].producer_dead_signal = "Some"
    /\ ~ds[r].dropped
    /\ ds' = [ds EXCEPT ![r] = DroppedSignal(ds[r])]
    /\ UNCHANGED <<revision, leader_key, log, producer_lock, lock_subkeys, instance_locks,
                   barriers, markers, uuids, leases, pc, rt, interrupt_signal,
                   txn_log>>

\* The watch after watch_handle.cancel().
CancelledWatch(sig) ==
    [sig EXCEPT !.watch = "cancelled", !.cancel_task = "done"]

\* The task spawned to cancel the watch, once cancel_watch_rx has resolved.
CancelWatch(r) ==
    /\ ds[r].cancel_task = "woken"
    /\ ds' = [ds EXCEPT ![r] = CancelledWatch(ds[r])]
    /\ UNCHANGED <<revision, leader_key, log, producer_lock, lock_subkeys, instance_locks,
                   barriers, markers, uuids, leases, pc, rt, interrupt_signal,
                   txn_log>>

\* ------------------------------------------------------ the specification

NodeStep(r) ==
    \/ NewGet(r)
    \/ NewTxn(r)
    \/ LoopInit(r)
    \/ LoopLostProducer(r)
    \/ LostProducerGet(r)
    \/ LostProducerBarrier(r)
    \/ LoopWaitingBarrier(r)
    \/ WaitingBarrierInterrupted(r)
    \/ WaitingBarrierResolved(r)
    \/ LoopComputingProducerSelection(r)
    \/ IdleWatch(r)
    \/ IdleGet(r)
    \/ IdleInterrupted(r)
    \/ IdleDeadSignal(r)
    \/ IdlePut(r)
    \/ Persist(r)

Environment ==
    \/ \E p \in Producers : ProducerDelete(p) \/ ProducerPut(p)
    \/ \E p \in Producers : SubkeyPut(p) \/ SubkeyDelete(p)
    \/ \E r \in Runtimes : WatchFailure(r, "None") \/ WatchFailure(r, "End")
    \/ \E r \in Runtimes : LeaderKeyExpire(r) \/ SendInterrupt(r)
    \/ \E r \in Runtimes : DropNode(r)
    \/ \E i \in Instances : InstanceLeave(i) \/ InstanceJoin(i)
    \/ \E k \in BarrierKeys, i \in Instances : BarrierArrive(k, i)

Next ==
    \/ \E r \in Runtimes : NodeStep(r)
    \/ \E r \in Runtimes : WatcherMessage(r)
    \/ \E r \in Runtimes : CancelWatch(r)
    \/ Environment


Spec == Init /\ [][Next]_vars

\* Every store call returns and the executor keeps polling every task, so a
\* node that can take a step, a spawned watcher with a message to read, and
\* a woken cancel task, eventually take their step.
FairSpec ==
    /\ Spec
    /\ \A r \in Runtimes :
          /\ WF_vars(NodeStep(r))
          /\ WF_vars(WatcherMessage(r))
          /\ WF_vars(CancelWatch(r))

\* Another store client deletes the state-log key (the key is put without a
\* lease, so it goes only when a client removes it). The absent key
\* compares as mod_revision 0.
LogKeyDelete ==
    /\ EnvMayWrite
    /\ log.version > 0
    /\ log' = AbsentKey
    /\ revision' = PutRevision(revision)
    /\ UNCHANGED <<leader_key, producer_lock, lock_subkeys, instance_locks,
                   barriers, markers, uuids, leases, pc, rt, ds,
                   interrupt_signal, txn_log>>

ResetNext == Next \/ LogKeyDelete

\* The system in a store where the state-log key can be removed under a
\* running leader: the one environment in which the compare
\* mod_revision < last_revision of the persist transaction passes.
\* Spec has no such client: the claims about what the nodes themselves write
\* are stated for Spec.
ResetSpec == Init /\ [][ResetNext]_vars

\* The executor keeps polling the task spawned to cancel the watch.
CancelFairSpec ==
    /\ Spec
    /\ \A r \in Runtimes : WF_vars(CancelWatch(r))

\* The existence check of get_producer_dead_signal returns and the executor
\* keeps polling the spawned watcher task.
SignalFairSpec ==
    /\ Spec
    /\ \A r \in Runtimes : WF_vars(IdleGet(r)) /\ WF_vars(WatcherMessage(r))

\* ------------------------------------------------------------ well-formedness

PcValues ==
    {"new_get", "new_txn", "new_err", "loop", "lp_get", "lp_barrier",
     "wait_barrier", "ds_get", "wait_idle", "idle_put", "persist",
     "ret_interrupted", "ret_drained", "ret_err", "panicked"}

TypeOK ==
    /\ revision \in Nat
    /\ leader_key \in [Runtimes -> {0, 1}]
    /\ log.version \in Nat /\ log.mod_revision \in 0 .. revision
    /\ producer_lock \subseteq Producers
    /\ lock_subkeys \subseteq Producers
    /\ instance_locks \subseteq Instances
    /\ uuids \in BarrierKeys /\ leases \in Nat
    /\ pc \in [Runtimes -> PcValues]
    /\ interrupt_signal \in [Runtimes -> {"empty", "sent"}]
    /\ \A r \in Runtimes :
          /\ rt[r].last_revision \in 0 .. revision
          /\ Len(ds[r].stream) <= MaxWatchMessages

\* The Idle arm is only ever entered without a cached dead signal: new()
\* builds the node with None, and no iteration that set it comes back to the
\* Idle arm. (The WaitingBarrier arm can find the barrier the LostProducer
\* arm cached, once that arm's persist went through: LoopWaitingBarrier
\* takes it.)
ArmsFindNoCache ==
    \A r \in Runtimes :
        (pc[r] = "loop" /\ rt[r].state_machine.type = "Idle")
            => rt[r].producer_dead_signal = "None"

\* ================================================================ claims

LoopTxns == {t \in txn_log : t.kind = "loop"}

NewTxns == {t \in txn_log : t.kind = "new"}

\* C1: the persist transaction of leader_loop writes the state-log key
\* exactly when, at transaction time, the leader lock key has version > 0
\* and the state-log key's modification revision equals last_revision.
C1_PersistWritesIffLeaderAndSameRevision ==
    \A t \in LoopTxns :
        t.put <=> (t.leader_version > 0 /\ t.mod_revision = t.from)

\* C2: a persist transaction without a put response ends the loop with
\* FailedToUpdateStateLog at once and for good, writes nothing to the
\* state-log key, and leaves state_machine and last_revision as they were.
C2_FailedPersistStopsAndKeepsState ==
    /\ [][\A r \in Runtimes :
            (/\ pc[r] = "persist"
             /\ \E t \in txn_log' \ txn_log : t.node = r /\ ~t.put)
            => /\ pc'[r] = "ret_err"
               /\ log' = log
               /\ rt'[r].state_machine = rt[r].state_machine
               /\ rt'[r].last_revision = rt[r].last_revision]_vars
    /\ [][\A r \in Runtimes : pc[r] = "ret_err" => pc'[r] = "ret_err"]_vars

C2_Witness ==
    \E r \in Runtimes :
        /\ pc[r] = "ret_err"
        /\ \E t \in LoopTxns : t.node = r /\ ~t.put
        /\ rt[r].state_machine # NoState

C4_LastRevisionFollowsTheStore ==
    /\ [][\A r \in Runtimes :
            (/\ pc[r] \in {"new_txn", "persist"}
             /\ pc'[r] # pc[r]
             /\ log' # log)
            => /\ rt'[r].last_revision > rt[r].last_revision
               /\ rt'[r].last_revision = revision'
               /\ rt'[r].last_revision = log'.mod_revision]_vars
    /\ [][\A r \in Runtimes :
            rt'[r].last_revision >= rt[r].last_revision]_vars

\* A node whose bootstrap put got through and whose persist put, issued
\* from the revision of that bootstrap put, got through as well.
C4_Witness ==
    \E r \in Runtimes :
        /\ \E t \in NewTxns : t.node = r /\ t.put
        /\ \E t \in LoopTxns :
              /\ t.node = r /\ t.put
              /\ t.from > 0
              /\ rt[r].last_revision > t.from
        /\ rt[r].last_revision = log.mod_revision
        /\ rt[r].state_machine = log.value
        /\ log.value = ComputingProducerSelection

\* The nodes whose constructor read the state-log key as absent and ran the
\* bootstrap transaction.
Bootstrapped == {t.node : t \in NewTxns}

InitWrites == {t \in NewTxns : t.put}

\* C5 as stated: two constructors that both read the key as absent write
\* exactly one Init, and the other one fails with FailedToUpdateStateLog.
C5_ExactlyOneInit ==
    Bootstrapped = Runtimes
    => /\ Cardinality(InitWrites) = 1
       /\ \A t \in NewTxns \ InitWrites : pc[t.node] = "new_err"

\* C5 amended: two constructors that both read the key as absent write at
\* most one Init: exactly one when at least one of them holds its leader
\* lock key at the time of its transaction, none otherwise; a constructor
\* whose transaction does not write fails with FailedToUpdateStateLog.
C5_AtMostOneInit ==
    Bootstrapped = Runtimes
    => /\ Cardinality(InitWrites) <= 1
       /\ Cardinality(InitWrites) = 1
             <=> \E t \in NewTxns : t.leader_version > 0
       /\ \A t \in NewTxns \ InitWrites : pc[t.node] = "new_err"
       /\ \A t \in InitWrites : pc[t.node] # "new_err"

C5_Witness ==
    /\ Bootstrapped = Runtimes
    /\ Cardinality(InitWrites) = 1
    /\ \E t \in NewTxns : ~t.put /\ t.leader_version > 0 /\ pc[t.node] = "new_err"
    /\ log.value = SMInit
\* Node r drives the group: its loop runs on the persisted state, read at
\* the key's current modification revision.
Leads(r) ==
    /\ Running(r)
    /\ rt[r].state_machine = log.value
    /\ rt[r].last_revision = log.mod_revision

\* What releases r from its duty to go on: its leader lock is gone, it was
\* interrupted, or another writer changed the state-log key under it.
Excused(r) ==
    \/ leader_key[r] = 0
    \/ interrupt_signal[r] = "sent"
    \/ log.mod_revision # rt[r].last_revision

\* The persisted WaitingBarrier still waits for a participant.
BarrierPending ==
    /\ log.value.type = "WaitingBarrier"
    /\ ~BarrierResolved(log.value.barrier_key)

\* C6: a node in Idle{P1, E1} that holds its leader lock and has no
\* competing writer persists, once P1's liveness key is deleted,
\* LostProducer{P1, E1}, then WaitingBarrier, then (once every participant
\* has arrived) ComputingProducerSelection, then Idle{P2, E2} with P2 # P1
\* and E2 # E1, in this order.
C6_FailoverRunsToTheNextIdle ==
    \A r \in Runtimes :
        (Leads(r) /\ log.value = Idle("P1", "E1") /\ "P1" \notin producer_lock)
        ~> \/ Excused(r)
           \/ "P1" \in producer_lock
           \/ /\ log.value = LostProducer("P1", "E1")
              /\ <>(\/ Excused(r)
                    \/ /\ log.value.type = "WaitingBarrier"
                       /\ <>(\/ Excused(r)
                             \/ BarrierPending
                             \/ /\ log.value = ComputingProducerSelection
                                /\ <>(\/ Excused(r)
                                      \/ /\ log.value.type = "Idle"
                                         /\ log.value.producer_id # "P1"
                                         /\ log.value.execution_id # "E1")))

\* The other branch of the select! node r waits in is not ready.
StillWaiting(r) ==
    \/ pc[r] = "wait_barrier" /\ ~BarrierResolved(rt[r].wait_on)
    \/ pc[r] = "wait_idle" /\ ~SignalReady(ds[r])

\* C7: when the interrupt has fired and the barrier (in WaitingBarrier) or
\* the dead signal (in Idle) has not resolved, the select! returns Ok(()),
\* for good, and writes nothing: the state-log key keeps its value and
\* revision, and the node its state_machine and last_revision.
C7_InterruptedWaitReturnsOkWithoutWrite ==
    /\ [][\A r \in Runtimes :
            (StillWaiting(r) /\ interrupt_signal[r] = "sent" /\ pc'[r] # pc[r])
            => /\ pc'[r] = "ret_interrupted"
               /\ log' = log
               /\ txn_log' = txn_log
               /\ rt'[r].state_machine = rt[r].state_machine
               /\ rt'[r].last_revision = rt[r].last_revision]_vars
    /\ [][\A r \in Runtimes :
            pc[r] = "ret_interrupted"
            => pc'[r] = "ret_interrupted" /\ (log' # log => rt' = rt)]_vars

C7_Witness ==
    \E r \in Runtimes :
        /\ pc[r] = "ret_interrupted"
        /\ rt[r].state_machine.type = "WaitingBarrier"
        /\ ~BarrierResolved(rt[r].state_machine.barrier_key)
        /\ log.value = rt[r].state_machine
        /\ log.mod_revision = rt[r].last_revision

\* C8: a put event read by the watcher task does not complete the dead
\* signal its holder awaits.
C8_PutEventDoesNotCompleteTheSignal ==
    \A r \in Runtimes :
        ds[r].watcher = "panic_put"
        => ~SignalReady(ds[r]) /\ ds[r].inner # "complete"

\* C9: when etcd.get finds no liveness key, the signal that
\* get_producer_dead_signal returns is already resolved, by the send of the
\* early exit, and no watcher task was spawned to read a watch message.
C9_AbsentKeyResolvesAtOnce ==
    [][\A r \in Runtimes :
          (/\ pc[r] = "ds_get"
           /\ pc'[r] # "ds_get"
           /\ rt[r].state_machine.producer_id \notin producer_lock)
          => /\ pc'[r] = "wait_idle"
             /\ SignalReady(ds'[r])
             /\ ds'[r].inner = "sent"
             /\ ds'[r].watcher = "none"]_vars

C9_Witness ==
    \E r \in Runtimes :
        /\ pc[r] = "wait_idle"
        /\ ds[r].inner = "sent"
        /\ ds[r].watcher = "none"
        /\ rt[r].state_machine.type = "Idle"

\* C10: a node built from a persisted WaitingBarrier waits on the barrier
\* under the persisted barrier_key, and when all participants have arrived
\* (its leader lock held, the state-log key unchanged since it was read) it
\* persists ComputingProducerSelection.
C10_ResumedBarrierPersistsSelection ==
    \A t \in LoopTxns :
        t.state.type = "WaitingBarrier"
        => /\ t.next = ComputingProducerSelection
           /\ BarrierResolved(t.state.barrier_key)
           /\ (t.leader_version > 0 /\ t.mod_revision = t.from) => t.put

\* The successor of a persisted state on the cycle; Init follows the absent
\* key.
CycleEdge(from, to) ==
    <<from, to>> \in
        {<<"None", "Init">>,
         <<"Init", "ComputingProducerSelection">>,
         <<"ComputingProducerSelection", "Idle">>,
         <<"Idle", "LostProducer">>,
         <<"LostProducer", "WaitingBarrier">>,
         <<"WaitingBarrier", "ComputingProducerSelection">>}

Returned(r) == pc[r] \in {"ret_interrupted", "ret_drained", "ret_err"}

\* C12: once the interrupt signal has been sent to a running leader_loop,
\* the loop eventually returns, whatever state the runtime is in.
C12_InterruptedLoopReturns ==
    \A r \in Runtimes :
        (Running(r) /\ interrupt_signal[r] = "sent") ~> Returned(r)

\* C13: whenever a dead signal is dropped, on the early-resolution path as
\* on the watching path, resolved or not, the watch opened for it is
\* eventually cancelled.
C13_DroppedSignalCancelsItsWatch ==
    \A r \in Runtimes : ds[r].dropped ~> ds[r].watch = "cancelled"

C13_Witness ==
    \E r1, r2 \in Runtimes :
        /\ ds[r1].dropped /\ ds[r1].watch = "cancelled"
        /\ ds[r1].watcher = "none" /\ ds[r1].inner \in {"sent", "complete"}
        /\ ds[r2].dropped /\ ds[r2].watch = "cancelled"
        /\ ds[r2].watcher = "running" /\ ds[r2].inner = "pending"

\* C14: the bootstrap transaction of new writes Init exactly when, at
\* transaction time, the leader lock key has version > 0 and the state-log
\* key has version 0, and then the node starts in Init with last_revision
\* the revision of that write; otherwise construction fails for good with
\* FailedToUpdateStateLog, no node is built and the key is left as it was.
C14_BootstrapWritesInitUnderBothCompares ==
    /\ [][\A r \in Runtimes :
            (pc[r] = "new_txn" /\ pc'[r] # pc[r])
            => IF leader_key[r] > 0 /\ log.version = 0
               THEN /\ log'.value = SMInit
                    /\ log'.version = 1
                    /\ log'.mod_revision = revision + 1
                    /\ revision' = revision + 1
                    /\ pc'[r] = "loop"
                    /\ rt'[r].state_machine = SMInit
                    /\ rt'[r].last_revision = log'.mod_revision
               ELSE /\ pc'[r] = "new_err"
                    /\ log' = log
                    /\ rt'[r] = NoNode]_vars
    /\ [][\A r \in Runtimes :
            pc[r] = "new_err" => pc'[r] = "new_err" /\ rt'[r] = NoNode]_vars

C14_Witness ==
    \E s, t \in NewTxns :
        /\ s.put /\ s.leader_version > 0 /\ s.mod_revision = 0
        /\ rt[s.node].state_machine = SMInit
        /\ rt[s.node].last_revision = log.mod_revision
        /\ ~t.put /\ t.leader_version = 0 /\ t.mod_revision = 0
        /\ pc[t.node] = "new_err" /\ rt[t.node] = NoNode

\* C15: an iteration that starts in ComputingProducerSelection computes
\* Idle{producer_id, execution_id} and goes on to persist it.
C15_SelectionComputesIdle ==
    [][\A r \in Runtimes :
          (/\ pc[r] = "loop"
           /\ rt[r].state_machine = ComputingProducerSelection
           /\ pc'[r] # pc[r])
          => /\ pc'[r] = "persist"
             /\ rt'[r].next_state.type = "Idle"]_vars

\* C16: the node a successful persist transaction leaves behind holds no
\* cached dead signal when the state it left is Idle, and no cached barrier
\* handle when the state it left is WaitingBarrier.
C16_TransitionClearsTheCaches ==
    \A r \in Runtimes :
        pc[r] = "persist"
        => LET after == AfterTxn(rt[r], PutRevision(revision), rt[r].next_state)
           IN  /\ rt[r].state_machine.type = "Idle"
                     => after.producer_dead_signal = "None"
               /\ rt[r].state_machine.type = "WaitingBarrier"
                     => after.barrier = 0

\* The signal has an output: Ok after the send, Err after tx was dropped; or
\* its holder has taken the output already.
Resolved(sig) == SignalReady(sig) \/ sig.inner = "complete"

\* C17: a dead signal whose producer's liveness key was absent when the
\* watch was opened, or was deleted at any time after that (before or after
\* the existence check), eventually resolves, as long as it is held.
C17_NoDeletionIsMissed ==
    \A r \in Runtimes :
        (ds[r].died /\ ~ds[r].dropped) ~> (Resolved(ds[r]) \/ ds[r].dropped)

C17_Witness ==
    \E r \in Runtimes :
        /\ ds[r].died /\ ~ds[r].dropped
        /\ ds[r].watcher = "got_delete"
        /\ ds[r].inner \in {"sent", "complete"}
        /\ "P1" \notin producer_lock

\* The persist transactions of leader_loop that ask to write WaitingBarrier.
WaitingBarrierTxns == {t \in LoopTxns : t.next.type = "WaitingBarrier"}

\* C18: the WaitingBarrier{lease_id, barrier_key, wait_for} an iteration
\* computes has wait_for exactly the instance locks its listing returned,
\* new_barrier has by then created a barrier under barrier_key, bound to
\* lease_id, over exactly that wait_for, and every persist transaction that
\* asks to write WaitingBarrier finds this barrier; instance locks created
\* after the listing are not in wait_for.
C18_WaitingBarrierNamesItsBarrier ==
    /\ [][\A r \in Runtimes :
            (pc[r] = "lp_get" /\ pc'[r] # pc[r])
            => /\ pc'[r] = "lp_barrier"
               /\ rt'[r].wait_for = instance_locks
               /\ rt'[r].lease_id = rt[r].lease_id
               /\ rt'[r].barrier_key = rt[r].barrier_key]_vars
    /\ [][\A r \in Runtimes :
            (pc[r] = "lp_barrier" /\ pc'[r] # pc[r])
            => LET next == rt'[r].next_state
               IN  /\ pc'[r] = "persist"
                   /\ next = WaitingBarrier(rt[r].lease_id, rt[r].barrier_key,
                                            rt[r].wait_for)
                   /\ ~barriers[next.barrier_key].exists
                   /\ barriers'[next.barrier_key].exists
                   /\ barriers'[next.barrier_key].wait_for = next.wait_for
                   /\ barriers'[next.barrier_key].lease_id = next.lease_id]_vars
    /\ [](\A t \in WaitingBarrierTxns :
            /\ t.state.type = "LostProducer"
            /\ barriers[t.next.barrier_key].exists
            /\ barriers[t.next.barrier_key].wait_for = t.next.wait_for
            /\ barriers[t.next.barrier_key].lease_id = t.next.lease_id)

C18_Witness ==
    \E t \in WaitingBarrierTxns :
        /\ instance_locks \ t.next.wait_for # {}
        /\ barriers[t.next.barrier_key].wait_for = t.next.wait_for
        /\ t.next.wait_for # {}

\* C19: when the dead signal fires in Idle{producer_id, execution_id}, the
\* state the loop computes, and asks its persist transaction to write, is
\* LostProducer with that producer_id and that execution_id.
C19_DeadSignalComputesLostProducer ==
    /\ [][\A r \in Runtimes :
            (pc[r] = "wait_idle" /\ pc'[r] = "idle_put")
            => /\ SignalReady(ds[r])
               /\ rt'[r].state_machine = rt[r].state_machine]_vars
    /\ [][\A r \in Runtimes :
            (pc[r] = "idle_put" /\ pc'[r] # pc[r])
            => /\ pc'[r] = "persist"
               /\ rt[r].state_machine.type = "Idle"
               /\ rt'[r].next_state.type = "LostProducer"
               /\ rt'[r].next_state.lost_producer_id
                     = rt[r].state_machine.producer_id
               /\ rt'[r].next_state.execution_id
                     = rt[r].state_machine.execution_id]_vars
    /\ [](\A t \in LoopTxns :
            t.state.type = "Idle"
            => /\ t.next.type = "LostProducer"
               /\ t.next.lost_producer_id = t.state.producer_id
               /\ t.next.execution_id = t.state.execution_id)

C19_Witness ==
    \E t \in LoopTxns :
        /\ t.state = Idle("P1", "E1")
        /\ t.next.type = "LostProducer"
        /\ ds[t.node].inner = "complete"

\* C20: the loop computes LostProducer for the producer of its Idle state
\* only if that producer's liveness key was absent when the watch was
\* opened or was deleted after it.
C20_LostProducerOnlyAfterDeath ==
    \A r \in Runtimes :
        (/\ pc[r] = "persist"
         /\ rt[r].state_machine.type = "Idle"
         /\ rt[r].next_state.type = "LostProducer")
        => ds[r].died
====
